---- MODULE Spec2Model ----
(***************************************************************************)
(* A model of mcp-rest-api-server: the Redis-backed sliding-window rate    *)
(* limiter and session manager (src/utils/redis.ts) and the lifecycle and  *)
(* session router of RestApiMcpServer (src/server/RestApiMcpServer.ts).    *)
(*                                                                         *)
(* Twelve specifications share the variables:                              *)
(*   SpecCache    RedisCache against a string store with TTL               *)
(*   SpecLimiter  RedisRateLimiter against a sorted-set store              *)
(*   SpecSession  RedisSessionManager against a string store with TTL      *)
(*   SpecStore    the three utilities together, a few calls in all         *)
(*   SpecConcurrent  checkLimit batches of several callers in flight       *)
(*   SpecSlow     SpecConcurrent with a fair clock and a store that may    *)
(*                never answer                                             *)
(*   SpecAdapter  createRedisClient: the handlers of the client's events   *)
(*   SpecConfig   the constructor and validateServerConfig                 *)
(*   Spec         RestApiMcpServer: start/stop, the /mcp routes, registry  *)
(*   SpecFair     Spec with weak fairness on the server's own steps        *)
(*   SpecOverlap  start/stop with a second start() before the first ends   *)
(*   SpecMain     main(): the server under the process's fatal conditions  *)
(* Time is counted in seconds (one Tick = one second); Date.now() is       *)
(* now * MsPerSec.                                                         *)
(***************************************************************************)
EXTENDS Integers, Sequences, FiniteSets, TLC

\* ------------------------------------------------------------------ bounds
MaxTime == 2      \* the clock stops advancing here
MaxCalls == 3     \* checkLimit/resetLimit calls recorded per run
MaxSessOps == 3   \* session-manager calls per run
MaxCacheOps == 3  \* cache calls per run
MaxHandles == 2   \* transport handles constructed per run
MaxRequests == 3  \* requests the /mcp routes receive per run
MaxStoreCalls == 2 \* calls of the three store utilities together per run
MaxEvents == 8    \* events the store client emits per run

\* -------------------------------------------------------- program constants
MsPerSec == 1000
\* maxAttempts of createRedisClient
MaxAttempts == 3

RlIds == {"a", "b"}
\* the limits and windows (seconds) a deployment may pass to checkLimit
Limits == {1, 2}
Windows == {1, 2}
NoExpiry == -1

SessIds == {"s1", "s2"}
Ttls == {1, 2}
\* JavaScript values handed to the session manager as `data`
JsValues == {"null", "false", "zero", "emptystr", "obj"}
\* "no such key": what GET answers for a missing key (null)
Absent == "<nil>"
\* no write to a session is in force
NoData == "<none>"
\* no TTL is running for a session
NoLease == [orig |-> 0, until |-> 0]
\* the keys handed to the cache
CacheKeys == {"k1", "k2"}

\* the transports a server is configured with
TransportModes == {"stdio", "http", "both"}
\* the calls in progress: start() may be called again before it has returned
StartCallers == {"start1"}
\* the calls of start() once a second one is issued while the first runs
OverlapCallers == StartCallers \cup {"start2"}
Callers == OverlapCallers \cup {"stop"}
Handles == 1..MaxHandles
\* the values randomUUID() returns; a client may present any of them
Sids == 1..MaxHandles
\* no mcp-session-id header; transport.sessionId undefined; no registry entry
NoSid == 0
NoHandle == 0

VARIABLES
  now,         \* seconds since the run began
  clientOpen,  \* RedisClient.isOpen
  limitCfg,    \* the limit and windowSeconds this deployment passes to checkLimit
  zset,        \* store: rate-limit key of each identifier -> sorted set
  zexp,        \* store: expiry (ms) of each rate-limit key, or NoExpiry
  rlLog,       \* per identifier, the limiter calls made and what they returned
  rlCalls,     \* number of limiter calls made
  sessStore,   \* store: session key of each session id -> JSON text or Absent
  sessExp,     \* store: expiry (ms) of each session key, or NoExpiry
  smRes,       \* the last session-manager call and what it returned
  smOps,       \* number of session-manager calls made
  written,     \* per session id, the data of the write in force, or NoData
  lease,       \* per session id, when the TTL asked for first and last runs out
  cacheStore,  \* store: cache key of each key -> JSON text or Absent
  cacheExp,    \* store: expiry (ms) of each cache key, or NoExpiry
  cacheRes,    \* the last cache call and what it returned
  cacheOps,    \* number of cache calls made
  config,      \* RestApiMcpServer.config.transport
  isRunning,   \* RestApiMcpServer.isRunning
  pc,          \* where each start() call and the stop() call in progress stand
  httpServer,  \* RestApiMcpServer.httpServer and the state of its listener
  redisClient, \* RestApiMcpServer.redisClient and the state of its connection
  tools,       \* whether the default tools are in RestApiMcpServer.tools
  stdio,       \* whether the stdio transport is connected
  transports,  \* RestApiMcpServer.transports: session id -> handle (0: no entry)
  handles,     \* every StreamableHTTPServerTransport constructed so far
  streams,     \* the handles with an open server-push (GET) connection
  routed,      \* per session id, the handles its requests were routed to
  terminated,  \* the session ids a DELETE has terminated
  lateReq,     \* the terminated session ids a later request has presented
  resp,        \* the last answer a /mcp route handler gave, and to what
  nReq,        \* number of requests the /mcp routes have received
  lastCall,    \* the last start() or stop() call and how it was answered
  adapter,     \* createRedisClient: the closure of the client's event handlers
  inflight,    \* the checkLimit batches sent to the store and not yet applied
  proc,        \* main(): the process, the condition that ended it, its exit code
  ctor         \* new RestApiMcpServer(config): the argument and how it ended

storeVars == <<now, clientOpen>>
rlVars == <<limitCfg, zset, zexp, rlLog, rlCalls>>
smVars == <<sessStore, sessExp, smRes, smOps, written, lease>>
cacheVars == <<cacheStore, cacheExp, cacheRes, cacheOps>>
lifeVars == <<config, isRunning, pc, httpServer, redisClient,
              tools, stdio, lastCall>>
routeVars == <<transports, handles, streams, routed, terminated, lateReq, resp,
              nReq>>
\* the adapter, the callers in flight, the process and the constructor
sideVars == <<adapter, inflight, proc, ctor>>
\* what the store utilities leave alone, and what the server's steps do
srvVars == <<lifeVars, routeVars, sideVars>>
utilVars == <<storeVars, rlVars, smVars, cacheVars, sideVars>>
vars == <<now, clientOpen, limitCfg, zset, zexp, rlLog, rlCalls,
          sessStore, sessExp, smRes, smOps, written, lease,
          cacheStore, cacheExp, cacheRes, cacheOps,
          config, isRunning, pc, httpServer, redisClient,
          tools, stdio, transports, handles, streams, routed,
          terminated, lateReq, resp, nReq, lastCall,
          adapter, inflight, proc, ctor>>

Max(a, b) == IF a >= b THEN a ELSE b

\* Date.now()
NowMs == now * MsPerSec

\* ------------------------------------------------------------- the store
\* ZREMRANGEBYSCORE key lo hi: both ends inclusive
ZRemRangeByScore(z, lo, hi) == {e \in z : ~(e.score >= lo /\ e.score <= hi)}

\* ZCARD key
ZCard(z) == Cardinality(z)

\* ZADD key score member: a member already present only has its score updated
ZAdd(z, score, member) ==
  {e \in z : e.member # member} \cup {[score |-> score, member |-> member]}

\* `${now}-${Math.random()}`: the timestamp and a tie-breaker no entry of the
\* key with the same timestamp carries
MemberNoTieBreak(z, n) == <<n, 1>>
Member(z, n) ==
  LET used == {e.member[2] : e \in {x \in z : x.member[1] = n}}
  IN  <<n, CHOOSE r \in 1..(Cardinality(used) + 1) : r \notin used>>

\* DEL key
DelKeepsKey(z) == z
Del(z) == {}

\* a key whose expiry has passed is gone
Expired(exp, ms) == exp # NoExpiry /\ exp <= ms

\* --------------------------------------------------------- RedisRateLimiter
\* how a call whose store command raised ends: every method of the three
\* utilities wraps its body in try/catch and returns a value from the catch
CaughtNowhere == "thrown"
Caught == "error"

WindowStartExclusive(n, w) == n - (w * MsPerSec) - 1
WindowStart(n, w) == n - (w * MsPerSec)

AllowedOffByOne(count, limit) == count <= limit
Allowed(count, limit) == count < limit

RemainingUnfloored(count, limit) == limit - count - 1
Remaining(count, limit) == Max(0, limit - count - 1)

ResetTime(n, w) == n + (w * MsPerSec)

FailClosed(limit, w, n) ==
  [allowed |-> FALSE, remaining |-> 0, resetTime |-> ResetTime(n, w)]
FailOpen(limit, w, n) ==
  [allowed |-> TRUE, remaining |-> limit - 1, resetTime |-> ResetTime(n, w)]

\* the MULTI batch of checkLimit: prune, count, add, set expiry
BatchPruned(z, n, w) == ZRemRangeByScore(z, 0, WindowStart(n, w))
BatchStored(z, n, w) ==
  ZAdd(BatchPruned(z, n, w), n, Member(BatchPruned(z, n, w), n))

\* a count that misses what callers of the same instant have added
BatchCountBlind(z, n, w) == ZCard({e \in BatchPruned(z, n, w) : e.score < n})
BatchCount(z, n, w) == ZCard(BatchPruned(z, n, w))

CheckResult(z, limit, w, n) ==
  [allowed |-> Allowed(BatchCount(z, n, w), limit),
   remaining |-> Remaining(BatchCount(z, n, w), limit),
   resetTime |-> ResetTime(n, w)]

LogEntry(op, st, res, limit, w) ==
  [op |-> op, t |-> now, st |-> st, limit |-> limit, window |-> w,
   allowed |-> res.allowed, remaining |-> res.remaining,
   resetTime |-> res.resetTime]

\* a limiter that records the admitted calls only
CheckLimitOkAdmittedOnly(id, limit, w) ==
  /\ rlCalls < MaxCalls
  /\ clientOpen
  /\ zset' = [zset EXCEPT ![id] =
                IF Allowed(BatchCount(zset[id], NowMs, w), limit)
                THEN BatchStored(zset[id], NowMs, w)
                ELSE BatchPruned(zset[id], NowMs, w)]
  /\ zexp' = [zexp EXCEPT ![id] = NowMs + w * MsPerSec]
  /\ rlLog' = [rlLog EXCEPT ![id] = Append(@,
                 LogEntry("check", "ok",
                          CheckResult(zset[id], limit, w, NowMs), limit, w))]
  /\ rlCalls' = rlCalls + 1
  /\ UNCHANGED <<storeVars, limitCfg, smVars, cacheVars, srvVars>>

\* checkLimit(id, limit, windowSeconds) with the client open and exec() answering
CheckLimitOk(id, limit, w) ==
  /\ rlCalls < MaxCalls
  /\ clientOpen
  /\ zset' = [zset EXCEPT ![id] = BatchStored(zset[id], NowMs, w)]
  /\ zexp' = [zexp EXCEPT ![id] = NowMs + w * MsPerSec]
  /\ rlLog' = [rlLog EXCEPT ![id] = Append(@,
                 LogEntry("check", "ok",
                          CheckResult(zset[id], limit, w, NowMs), limit, w))]
  /\ rlCalls' = rlCalls + 1
  /\ UNCHANGED <<storeVars, limitCfg, smVars, cacheVars, srvVars>>

\* checkLimit with the client not open: the early return of line 190
CheckLimitClosed(id, limit, w) ==
  /\ rlCalls < MaxCalls
  /\ ~clientOpen
  /\ rlLog' = [rlLog EXCEPT ![id] = Append(@,
                 LogEntry("check", "closed",
                          FailOpen(limit, w, NowMs), limit, w))]
  /\ rlCalls' = rlCalls + 1
  /\ UNCHANGED <<storeVars, limitCfg, zset, zexp, smVars, cacheVars, srvVars>>

\* checkLimit whose batch raises: the catch of line 217. The store may or may
\* not have applied the batch before the failure reached the client.
CheckLimitError(id, limit, w) ==
  /\ rlCalls < MaxCalls
  /\ clientOpen
  /\ \E applied \in BOOLEAN :
       IF applied
       THEN /\ zset' = [zset EXCEPT ![id] =
                          BatchStored(zset[id], NowMs, w)]
            /\ zexp' = [zexp EXCEPT ![id] = NowMs + w * MsPerSec]
       ELSE UNCHANGED <<zset, zexp>>
  /\ rlLog' = [rlLog EXCEPT ![id] = Append(@,
                 LogEntry("check", Caught,
                          FailOpen(limit, w, NowMs), limit, w))]
  /\ rlCalls' = rlCalls + 1
  /\ UNCHANGED <<storeVars, limitCfg, smVars, cacheVars, srvVars>>

\* Concurrent callers. checkLimit runs without suspension from Date.now() to
\* exec(), which hands the MULTI batch to the client; the client sends the
\* batches of all callers over its one connection in the order of the calls
\* and the store applies each of them as a whole, some time later.
Clients == {"c1", "c2"}

\* everything but the batches in flight
notInflight == <<storeVars, limitCfg, smVars, cacheVars, lifeVars, routeVars,
                 adapter, proc, ctor>>

\* checkLimit(id, ...) by caller c up to its await: lines 184-208
CheckLimitSent(c, id) ==
  /\ rlCalls < MaxCalls
  /\ clientOpen
  /\ \A k \in 1..Len(inflight) : inflight[k].c # c
  /\ inflight' = Append(inflight,
                        [c |-> c, id |-> id, t |-> now, ahead |-> Len(inflight)])
  /\ rlCalls' = rlCalls + 1
  /\ UNCHANGED <<notInflight, zset, zexp, rlLog>>

\* the store applies the oldest batch in flight: prune, count, add with the
\* caller's timestamp, expiry counted from the store's time; the caller
\* resumes with the replies (lines 209-215)
CheckLimitApplied ==
  /\ inflight # <<>>
  /\ LET b == Head(inflight)
         res == CheckResult(zset[b.id], limitCfg.limit, limitCfg.window,
                            b.t * MsPerSec)
     IN  /\ zset' = [zset EXCEPT ![b.id] =
                       BatchStored(@, b.t * MsPerSec, limitCfg.window)]
         /\ zexp' = [zexp EXCEPT ![b.id] = NowMs + limitCfg.window * MsPerSec]
         /\ rlLog' = [rlLog EXCEPT ![b.id] = Append(@,
                        [op |-> "check", st |-> "ok", c |-> b.c, t |-> b.t,
                         at |-> now, ahead |-> b.ahead,
                         count |-> BatchCount(zset[b.id], b.t * MsPerSec,
                                              limitCfg.window),
                         allowed |-> res.allowed,
                         remaining |-> res.remaining])]
  /\ inflight' = Tail(inflight)
  /\ UNCHANGED <<notInflight, rlCalls>>

\* resetLimit(id): DEL of the key when the client is open, false otherwise
ResetLimit(id) ==
  /\ rlCalls < MaxCalls
  /\ IF clientOpen
     THEN /\ zset' = [zset EXCEPT ![id] = Del(@)]
          /\ zexp' = [zexp EXCEPT ![id] = NoExpiry]
     ELSE UNCHANGED <<zset, zexp>>
  /\ rlLog' = [rlLog EXCEPT ![id] = Append(@,
                 [op |-> "reset", t |-> now,
                  st |-> IF clientOpen THEN "ok" ELSE "closed",
                  limit |-> 0, window |-> 0,
                  allowed |-> clientOpen, remaining |-> 0, resetTime |-> 0])]
  /\ rlCalls' = rlCalls + 1
  /\ UNCHANGED <<storeVars, limitCfg, smVars, cacheVars, srvVars>>

\* resetLimit(id) whose DEL raises: the catch of line 229 answers false. The
\* store may or may not have deleted the key before the failure arrived.
ResetLimitError(id) ==
  /\ rlCalls < MaxCalls
  /\ clientOpen
  /\ \E applied \in BOOLEAN :
       IF applied
       THEN /\ zset' = [zset EXCEPT ![id] = Del(@)]
            /\ zexp' = [zexp EXCEPT ![id] = NoExpiry]
       ELSE UNCHANGED <<zset, zexp>>
  /\ rlLog' = [rlLog EXCEPT ![id] = Append(@,
                 [op |-> "reset", t |-> now, st |-> Caught,
                  limit |-> 0, window |-> 0,
                  allowed |-> FALSE, remaining |-> 0, resetTime |-> 0])]
  /\ rlCalls' = rlCalls + 1
  /\ UNCHANGED <<storeVars, limitCfg, smVars, cacheVars, srvVars>>

\* ------------------------------------------------------- time and the link
\* one second passes; the store drops the keys whose expiry has been reached
Tick ==
  /\ now < MaxTime
  /\ now' = now + 1
  /\ zset' = [i \in RlIds |->
                IF Expired(zexp[i], (now + 1) * MsPerSec) THEN {} ELSE zset[i]]
  /\ zexp' = [i \in RlIds |->
                IF Expired(zexp[i], (now + 1) * MsPerSec) THEN NoExpiry ELSE zexp[i]]
  /\ sessStore' = [s \in SessIds |->
                IF Expired(sessExp[s], (now + 1) * MsPerSec) THEN Absent
                ELSE sessStore[s]]
  /\ sessExp' = [s \in SessIds |->
                IF Expired(sessExp[s], (now + 1) * MsPerSec) THEN NoExpiry
                ELSE sessExp[s]]
  /\ written' = [s \in SessIds |->
                IF Expired(sessExp[s], (now + 1) * MsPerSec) THEN NoData
                ELSE written[s]]
  /\ lease' = [s \in SessIds |->
                IF lease[s].until <= now + 1 THEN NoLease ELSE lease[s]]
  /\ cacheStore' = [k \in CacheKeys |->
                IF Expired(cacheExp[k], (now + 1) * MsPerSec) THEN Absent
                ELSE cacheStore[k]]
  /\ cacheExp' = [k \in CacheKeys |->
                IF Expired(cacheExp[k], (now + 1) * MsPerSec) THEN NoExpiry
                ELSE cacheExp[k]]
  /\ UNCHANGED <<clientOpen, limitCfg, rlLog, rlCalls, smRes, smOps, cacheRes,
                 cacheOps, srvVars>>

\* the connection to the store is lost or comes back
LinkFlip ==
  /\ clientOpen' = ~clientOpen
  /\ UNCHANGED <<now, rlVars, smVars, cacheVars, srvVars>>

\* ------------------------------------------------------ RedisSessionManager
\* JSON.stringify(data)
StringifyBare(v) ==
  CASE v = "null" -> "null"
    [] v = "false" -> "false"
    [] v = "zero" -> "0"
    [] v = "emptystr" -> ""
    [] v = "obj" -> "{\"k\":1}"
Stringify(v) ==
  CASE v = "null" -> "null"
    [] v = "false" -> "false"
    [] v = "zero" -> "0"
    [] v = "emptystr" -> "\"\""
    [] v = "obj" -> "{\"k\":1}"

\* JSON.parse(text)
Parse(text) ==
  CASE text = "null" -> "null"
    [] text = "false" -> "false"
    [] text = "0" -> "zero"
    [] text = "\"\"" -> "emptystr"
    [] text = "{\"k\":1}" -> "obj"

\* a JavaScript string is truthy unless it is empty
TruthyParsed(text) == text \notin {Absent, "", "null", "false", "0", "\"\""}
Truthy(text) == text # Absent /\ text # ""

\* data ? JSON.parse(data) : null
ReadBackIgnoringLink(text, open) == IF Truthy(text) THEN Parse(text) ELSE "null"
ReadBack(text, open) == IF open /\ Truthy(text) THEN Parse(text) ELSE "null"

\* the boolean a write operation returns: true unless the client is not open
WriteOkAlways(open) == TRUE
WriteOk(open) == open

SmResult(op, id, st, ok, val) ==
  [op |-> op, id |-> id, st |-> st, ok |-> ok, val |-> val,
   had |-> sessStore[id] # Absent]

LinkState == IF clientOpen THEN "ok" ELSE "closed"

\* the TTL a caller was promised: a create or update that took effect starts
\* one of ttl seconds; an extend that took effect on a session still running
\* replaces its end by ttl seconds from now
Leased(id, ttl) ==
  IF clientOpen
  THEN [lease EXCEPT ![id] = [orig |-> now + ttl, until |-> now + ttl]]
  ELSE lease
Extended(id, ttl) ==
  IF clientOpen /\ lease[id].until > now
  THEN [lease EXCEPT ![id].until = now + ttl]
  ELSE lease

\* EXPIRE key ttl: the expiry of the key becomes ttl seconds from now
ExpireKeepsOld(exp, ttl) == exp
Expire(exp, ttl) == NowMs + ttl * MsPerSec

\* SETEX key ttl text, when the client is open
SetEx(id, ttl, text) ==
  IF clientOpen
  THEN /\ sessStore' = [sessStore EXCEPT ![id] = text]
       /\ sessExp' = [sessExp EXCEPT ![id] = NowMs + ttl * MsPerSec]
  ELSE UNCHANGED <<sessStore, sessExp>>

\* createSession(sessionId, data, ttlSeconds)
CreateSession(id, data, ttl) ==
  /\ smOps < MaxSessOps
  /\ SetEx(id, ttl, Stringify(data))
  /\ smRes' = SmResult("create", id, LinkState, WriteOk(clientOpen), "null")
  /\ written' = IF clientOpen THEN [written EXCEPT ![id] = data] ELSE written
  /\ lease' = Leased(id, ttl)
  /\ smOps' = smOps + 1
  /\ UNCHANGED <<srvVars, storeVars, rlVars, cacheVars>>

\* getSession(sessionId)
GetSession(id) ==
  /\ smOps < MaxSessOps
  /\ smRes' = SmResult("get", id, LinkState, clientOpen,
                       ReadBack(sessStore[id], clientOpen))
  /\ smOps' = smOps + 1
  /\ UNCHANGED <<srvVars, storeVars, rlVars, cacheVars, sessStore, sessExp, written,
                 lease>>

\* updateSession(sessionId, data, ttlSeconds)
UpdateSession(id, data, ttl) ==
  /\ smOps < MaxSessOps
  /\ SetEx(id, ttl, Stringify(data))
  /\ smRes' = SmResult("update", id, LinkState, WriteOk(clientOpen), "null")
  /\ written' = IF clientOpen THEN [written EXCEPT ![id] = data] ELSE written
  /\ lease' = Leased(id, ttl)
  /\ smOps' = smOps + 1
  /\ UNCHANGED <<srvVars, storeVars, rlVars, cacheVars>>

\* deleteSession(sessionId)
DeleteSession(id) ==
  /\ smOps < MaxSessOps
  /\ IF clientOpen
     THEN /\ sessStore' = [sessStore EXCEPT ![id] = Absent]
          /\ sessExp' = [sessExp EXCEPT ![id] = NoExpiry]
     ELSE UNCHANGED <<sessStore, sessExp>>
  /\ smRes' = SmResult("delete", id, LinkState, WriteOk(clientOpen), "null")
  /\ written' = IF clientOpen THEN [written EXCEPT ![id] = NoData] ELSE written
  /\ lease' = IF clientOpen THEN [lease EXCEPT ![id] = NoLease] ELSE lease
  /\ smOps' = smOps + 1
  /\ UNCHANGED <<srvVars, storeVars, rlVars, cacheVars>>

\* extendSession(sessionId, ttlSeconds): EXPIRE sets the expiry of a key that
\* exists and does nothing to a missing one; its answer is not looked at
ExtendSession(id, ttl) ==
  /\ smOps < MaxSessOps
  /\ IF clientOpen /\ sessStore[id] # Absent
     THEN sessExp' = [sessExp EXCEPT ![id] = Expire(@, ttl)]
     ELSE UNCHANGED sessExp
  /\ lease' = Extended(id, ttl)
  /\ smRes' = SmResult("extend", id, LinkState, WriteOk(clientOpen), "null")
  /\ smOps' = smOps + 1
  /\ UNCHANGED <<srvVars, storeVars, rlVars, cacheVars, sessStore, written>>

\* a session-manager call whose store command raises: the catch block of each
\* method answers false (null for getSession); the command did not take effect
SessionOpError(op, id) ==
  /\ smOps < MaxSessOps
  /\ clientOpen
  /\ smRes' = SmResult(op, id, Caught, WriteOk(FALSE), ReadBack(sessStore[id], FALSE))
  /\ smOps' = smOps + 1
  /\ UNCHANGED <<srvVars, storeVars, rlVars, cacheVars, sessStore, sessExp, written,
                 lease>>

SessionOps == {"create", "get", "update", "delete", "extend"}

\* --------------------------------------------------------------- RedisCache
\* a cache call: the value it was given, how it ended, what it returned
CacheResult(op, k, arg, st, ok, val) ==
  [op |-> op, key |-> k, arg |-> arg, st |-> st, ok |-> ok, val |-> val,
   t |-> now]

\* set(key, value, ttlSeconds): SETEX when the client is open
CacheSet(k, v, ttl) ==
  /\ cacheOps < MaxCacheOps
  /\ IF clientOpen
     THEN /\ cacheStore' = [cacheStore EXCEPT ![k] = Stringify(v)]
          /\ cacheExp' = [cacheExp EXCEPT ![k] = NowMs + ttl * MsPerSec]
     ELSE UNCHANGED <<cacheStore, cacheExp>>
  /\ cacheRes' = CacheResult("set", k, v, LinkState, WriteOk(clientOpen), "null")
  /\ cacheOps' = cacheOps + 1
  /\ UNCHANGED <<srvVars, storeVars, rlVars, smVars>>

\* get(key): value ? JSON.parse(value) : null
CacheGet(k) ==
  /\ cacheOps < MaxCacheOps
  /\ cacheRes' = CacheResult("get", k, "null", LinkState, clientOpen,
                             ReadBack(cacheStore[k], clientOpen))
  /\ cacheOps' = cacheOps + 1
  /\ UNCHANGED <<srvVars, storeVars, rlVars, smVars, cacheStore, cacheExp>>

\* del(key)
CacheDel(k) ==
  /\ cacheOps < MaxCacheOps
  /\ IF clientOpen
     THEN /\ cacheStore' = [cacheStore EXCEPT ![k] = Absent]
          /\ cacheExp' = [cacheExp EXCEPT ![k] = NoExpiry]
     ELSE UNCHANGED <<cacheStore, cacheExp>>
  /\ cacheRes' = CacheResult("del", k, "null", LinkState, WriteOk(clientOpen), "null")
  /\ cacheOps' = cacheOps + 1
  /\ UNCHANGED <<srvVars, storeVars, rlVars, smVars>>

\* exists(key): EXISTS answers 1 for a key the store holds
CacheExists(k) ==
  /\ cacheOps < MaxCacheOps
  /\ cacheRes' = CacheResult("exists", k, "null", LinkState,
                             clientOpen /\ cacheStore[k] # Absent, "null")
  /\ cacheOps' = cacheOps + 1
  /\ UNCHANGED <<srvVars, storeVars, rlVars, smVars, cacheStore, cacheExp>>

\* a cache call whose store command raises: the catch block of each method
\* answers false (null for get); the command did not take effect
CacheOpError(op, k) ==
  /\ cacheOps < MaxCacheOps
  /\ clientOpen
  /\ cacheRes' = CacheResult(op, k, "null", Caught, WriteOk(FALSE),
                             ReadBack(cacheStore[k], FALSE))
  /\ cacheOps' = cacheOps + 1
  /\ UNCHANGED <<srvVars, storeVars, rlVars, smVars, cacheStore, cacheExp>>

CacheOps == {"set", "get", "del", "exists"}

\* --------------------------------------------------------- RestApiMcpServer
\* sessionId && this.transports.has(sessionId)
KnownNever(sid) == FALSE
Known(sid) == sid # NoSid /\ transports[sid] # NoHandle

\* this.transports.set(id, transport) and this.transports.delete(id)
RegistrySetAll(reg, sid, h) == [s \in DOMAIN reg |-> h]
RegistrySet(reg, sid, h) == [reg EXCEPT ![sid] = h]
RegistryDeleteNothing(reg, sid) == reg
RegistryDelete(reg, sid) == [reg EXCEPT ![sid] = NoHandle]

\* randomUUID(): a value no handle was given before
UsedSids == {handles[h].sid : h \in Handles} \ {NoSid}
RandomUUIDRepeats == CHOOSE s \in Sids : \A r \in Sids : s <= r
RandomUUID == CHOOSE s \in Sids \ UsedSids : \A r \in Sids \ UsedSids : s <= r

\* the identifiers a client can present: none, or one the server has issued
Presentable == {NoSid} \cup UsedSids

\* new StreamableHTTPServerTransport(...): the next handle not yet constructed
Constructed == {h \in Handles : handles[h].st # "none"}
NewHandle == CHOOSE h \in Handles \ Constructed : \A g \in Handles \ Constructed : h <= g

\* the handles in the registry
Registered == {transports[s] : s \in Sids} \ {NoHandle}

\* transport.onclose: if (transport.sessionId) this.transports.delete(...)
OnCloseKeeps(reg, h) == reg
OnClose(reg, h) ==
  IF handles[h].sid # NoSid THEN RegistryDelete(reg, handles[h].sid) ELSE reg

\* transport.close(): the handle ends its streams and calls onclose
ClosedHandle(h) == [handles[h] EXCEPT !.st = "closed"]

\* what the mcp-session-id header of a request is to the registry: absent,
\* the id of a registered handle, or an id that is not (or no longer) registered
SidKind(sid) ==
  IF sid = NoSid THEN "none" ELSE IF Known(sid) THEN "known" ELSE "stale"

\* the ways a call into the transport can end: it answers, it throws before
\* the response has begun, it throws after res.headersSent
Outcomes == {"ok", "throwEarly", "throwLate"}

\* the answers of the routes. "handled": the transport wrote the response;
\* "rpc500": status 500 with the JSON-RPC error -32603 of the catch block;
\* "logged": the error was logged and the begun response left as it was;
\* "400" and "200": the plain-text answers of the GET and DELETE routes;
\* "stream": the transport holds the server-push response open;
\* "escaped": the handler's promise rejected with nothing written.
\* The POST route answers alike whatever identifier came with the request.
Answer(route, kind, status) == [route |-> route, kind |-> kind, status |-> status]

\* the catch block of handleMcpRequest, lines 305-318
CatchAnswerAlways500(o) == IF o = "ok" THEN "handled" ELSE "rpc500"
CatchAnswer(o) ==
  CASE o = "ok" -> "handled"
    [] o = "throwEarly" -> "rpc500"
    [] o = "throwLate" -> "logged"

\* POST /mcp: handleMcpRequest up to its first await. A known identifier is
\* routed to its handle; otherwise a handle is constructed and connected.
Post(sid, isInit) ==
  /\ UNCHANGED utilVars
  /\ httpServer = "listening"
  /\ sid \in Presentable
  /\ nReq < MaxRequests
  /\ nReq' = nReq + 1
  /\ IF Known(sid)
     THEN /\ routed' = [routed EXCEPT ![sid] = @ \cup {transports[sid]}]
          /\ \E o \in Outcomes : resp' = Answer("post", "any", CatchAnswer(o))
          /\ UNCHANGED handles
     ELSE /\ Constructed # Handles
          /\ UNCHANGED resp
          /\ handles' = [handles EXCEPT ![NewHandle] =
                           [st |-> "connecting", sid |-> NoSid, init |-> isInit,
                            dup |-> (sid # NoSid /\ transports[sid] # NoHandle)]]
          /\ routed' = IF sid # NoSid /\ transports[sid] # NoHandle
                       THEN [routed EXCEPT ![sid] = @ \cup {NewHandle}]
                       ELSE routed
  /\ lateReq' = lateReq \cup ({sid} \cap terminated)
  /\ UNCHANGED <<lifeVars, transports, streams, terminated>>

\* handleMcpRequest after mcpServer.connect(transport): transport.handleRequest
\* runs; an initialize request makes the handle generate its session id and
\* call onsessioninitialized, any other request is answered 400. A connect
\* that throws is answered 500.
PostConnected(h) ==
  /\ UNCHANGED utilVars
  /\ handles[h].st = "connecting"
  /\ \/ /\ handles[h].init
        /\ handles' = [handles EXCEPT ![h].st = "open", ![h].sid = RandomUUID]
        /\ transports' = RegistrySet(transports, RandomUUID, h)
        /\ \E o \in {"ok", "throwLate"} :
             resp' = Answer("post", "any", CatchAnswer(o))
     \/ /\ ~handles[h].init
        /\ handles' = [handles EXCEPT ![h].st = "open"]
        /\ resp' = Answer("post", "any", CatchAnswer("ok"))
        /\ UNCHANGED transports
     \/ /\ handles' = [handles EXCEPT ![h].st = "open"]
        /\ resp' = Answer("post", "any", CatchAnswer("throwEarly"))
        /\ UNCHANGED transports
  /\ UNCHANGED <<lifeVars, streams, routed, terminated, lateReq, nReq>>

\* GET /mcp: handleMcpSse. A known identifier attaches a server-push stream to
\* its handle; anything else is answered 400. Nothing catches what
\* transport.handleRequest throws.
SseRejectsAsSuccess(kind) == Answer("get", kind, "200")
SseRejects(kind) == Answer("get", kind, "400")
Sse(sid) ==
  /\ UNCHANGED utilVars
  /\ httpServer = "listening"
  /\ sid \in Presentable
  /\ nReq < MaxRequests
  /\ nReq' = nReq + 1
  /\ IF Known(sid)
     THEN /\ routed' = [routed EXCEPT ![sid] = @ \cup {transports[sid]}]
          /\ \/ /\ streams' = streams \cup {transports[sid]}
                /\ resp' = Answer("get", "known", "stream")
             \/ /\ UNCHANGED streams
                /\ resp' = Answer("get", "known", "escaped")
     ELSE /\ resp' = SseRejects(SidKind(sid))
          /\ UNCHANGED <<routed, streams>>
  /\ lateReq' = lateReq \cup ({sid} \cap terminated)
  /\ UNCHANGED <<lifeVars, transports, handles, terminated>>

\* the client of a server-push connection goes away; the handle stays
StreamEnds(h) ==
  /\ UNCHANGED utilVars
  /\ h \in streams
  /\ streams' = streams \ {h}
  /\ UNCHANGED <<lifeVars, transports, handles, routed, terminated, lateReq, resp,
                 nReq>>

\* DELETE /mcp: handleMcpSessionTermination; answered 200 either way. The
\* promise of transport.close() is not awaited: a close that fails leaves the
\* handle as it was, and its registry entry is deleted all the same.
TerminationAnswerByClose(kind, closed) ==
  Answer("delete", kind, IF closed THEN "200" ELSE "500")
TerminationAnswer(kind, closed) == Answer("delete", kind, "200")
Delete(sid) ==
  /\ UNCHANGED utilVars
  /\ httpServer = "listening"
  /\ sid \in Presentable
  /\ nReq < MaxRequests
  /\ nReq' = nReq + 1
  /\ IF Known(sid)
     THEN /\ \/ /\ handles' = [handles EXCEPT ![transports[sid]] =
                                   ClosedHandle(transports[sid])]
                /\ transports' =
                     RegistryDelete(OnClose(transports, transports[sid]), sid)
                /\ streams' = streams \ {transports[sid]}
                /\ resp' = TerminationAnswer("known", TRUE)
             \/ /\ transports' = RegistryDelete(transports, sid)
                /\ resp' = TerminationAnswer("known", FALSE)
                /\ UNCHANGED <<handles, streams>>
          /\ terminated' = terminated \cup {sid}
     ELSE /\ resp' = TerminationAnswer(SidKind(sid), TRUE)
          /\ UNCHANGED <<handles, transports, streams, terminated>>
  /\ lateReq' = lateReq \cup ({sid} \cap terminated)
  /\ UNCHANGED <<lifeVars, routed>>

\* the transport of a handle closes by itself and calls onclose
TransportClosed(h) ==
  /\ UNCHANGED utilVars
  /\ handles[h].st = "open"
  /\ handles' = [handles EXCEPT ![h] = ClosedHandle(h)]
  /\ transports' = OnClose(transports, h)
  /\ streams' = streams \ {h}
  /\ UNCHANGED <<lifeVars, routed, terminated, lateReq, resp, nReq>>

\* if (this.redisClient): the field holds a client object
RedisTruthy == redisClient \notin {"undefined", "null"}

\* cleanup(), lines 456-460: close every registered handle, clear the registry.
\* close() is asynchronous and its promise is dropped: a close that fails
\* leaves its handle as it was and stops nothing that follows.
CloseAllTransports ==
  /\ \E failed \in SUBSET Registered :
       handles' = [h \in Handles |->
                     IF h \in Registered \ failed THEN ClosedHandle(h)
                     ELSE handles[h]]
  /\ transports' = [s \in Sids |-> NoHandle]
  /\ streams' = streams \ Registered

\* what the caller of cleanup() does once cleanup has returned: stop() clears
\* isRunning, start() rethrows
AfterCleanup(c) ==
  /\ pc' = [pc EXCEPT ![c] = "idle"]
  /\ isRunning' = IF c = "stop" THEN FALSE ELSE isRunning

\* cleanup() up to its first await: with an httpServer it calls close() and
\* returns that promise; without one it quits the store client, if any, and
\* then closes the handles
Cleanup(c) ==
  IF httpServer # "none"
  THEN /\ httpServer' = IF httpServer \in {"binding", "listening"}
                        THEN "closing" ELSE httpServer
       /\ pc' = [pc EXCEPT ![c] = "cleanupHttp"]
       /\ UNCHANGED <<isRunning, redisClient, routeVars>>
  ELSE IF RedisTruthy
  THEN /\ pc' = [pc EXCEPT ![c] = "cleanupRedis"]
       /\ UNCHANGED <<isRunning, httpServer, redisClient, routeVars>>
  ELSE /\ CloseAllTransports
       /\ AfterCleanup(c)
       /\ UNCHANGED <<httpServer, redisClient, routed, terminated, lateReq, resp,
                      nReq>>

\* the callback of httpServer.close(): every connection has ended. cleanup()
\* returned the promise this resolves, so nothing else of cleanup() runs.
CleanupHttpClosed(c) ==
  /\ UNCHANGED utilVars
  /\ pc[c] = "cleanupHttp"
  /\ streams = {}
  /\ httpServer' = "closed"
  /\ AfterCleanup(c)
  /\ UNCHANGED <<config, redisClient, tools, stdio, lastCall, routeVars>>

\* redisClient.quit() has returned or thrown: the handles are closed next
CleanupRedisDone(c) ==
  /\ UNCHANGED utilVars
  /\ pc[c] = "cleanupRedis"
  /\ redisClient' = "closed"
  /\ CloseAllTransports
  /\ AfterCleanup(c)
  /\ UNCHANGED <<config, httpServer, tools, stdio, lastCall, routed, terminated,
                 lateReq, resp, nReq>>

\* start(), lines 77-83: refuse when running, else begin initializeRedis
StartCallUnguarded(c) ==
  /\ UNCHANGED utilVars
  /\ pc[c] = "idle"
  /\ redisClient' = "connecting"
  /\ pc' = [pc EXCEPT ![c] = "redis"]
  /\ lastCall' = [op |-> "start", res |-> "begun"]
  /\ UNCHANGED <<config, isRunning, httpServer, tools, stdio, routeVars>>
StartCall(c) ==
  /\ UNCHANGED utilVars
  /\ pc[c] = "idle"
  /\ IF isRunning
     THEN /\ lastCall' = [op |-> "start", res |-> "AlreadyRunning"]
          /\ UNCHANGED <<config, isRunning, pc, httpServer, redisClient, tools,
                         stdio, routeVars>>
     ELSE /\ redisClient' = "connecting"
          /\ pc' = [pc EXCEPT ![c] = "redis"]
          /\ lastCall' = [op |-> "start", res |-> "begun"]
          /\ UNCHANGED <<config, isRunning, httpServer, tools, stdio, routeVars>>

\* getStatus().redisConnected: !!this.redisClient
RedisConnected == RedisTruthy

\* initializeRedis(): connect and ping answered, or failed or timed out; the
\* catch of initializeRedis disconnects, sets the field to null and returns
StartRedisDoneThrows(c) ==
  /\ UNCHANGED utilVars
  /\ pc[c] = "redis"
  /\ \/ /\ redisClient' = "open"
        /\ pc' = [pc EXCEPT ![c] = "tools"]
     \/ /\ redisClient' = "null"
        /\ pc' = [pc EXCEPT ![c] = "idle"]
  /\ UNCHANGED <<config, isRunning, httpServer, tools, stdio, lastCall, routeVars>>
StartRedisDone(c) ==
  /\ UNCHANGED utilVars
  /\ pc[c] = "redis"
  /\ \E ok \in BOOLEAN : redisClient' = IF ok THEN "open" ELSE "null"
  /\ pc' = [pc EXCEPT ![c] = "tools"]
  /\ UNCHANGED <<config, isRunning, httpServer, tools, stdio, lastCall, routeVars>>

\* the first transport start() activates after the tools
BeginTransports(c) ==
  IF config \in {"stdio", "both"}
  THEN /\ pc' = [pc EXCEPT ![c] = "stdio"]
       /\ UNCHANGED httpServer
  ELSE /\ pc' = [pc EXCEPT ![c] = "http"]
       /\ httpServer' = "binding"

\* registerDefaultTools(), then the first transport is begun; a registration
\* that throws lands in the catch of start()
StartTools(c) ==
  /\ UNCHANGED utilVars
  /\ pc[c] = "tools"
  /\ \/ /\ tools' = TRUE
        /\ BeginTransports(c)
        /\ UNCHANGED <<isRunning, redisClient, routeVars>>
     \/ /\ Cleanup(c)
        /\ UNCHANGED tools
  /\ UNCHANGED <<config, stdio, lastCall>>

\* whether transport t is the last one start() activates before it sets
\* isRunning: the http transport, or stdio when no http transport is configured
RunsAfterAny(t) == TRUE
RunsAfter(t) == t = "http" \/ config = "stdio"

\* startStdioTransport(): mcpServer.connect(stdio) returned or threw
StartStdioDone(c) ==
  /\ UNCHANGED utilVars
  /\ pc[c] = "stdio"
  /\ \/ /\ stdio' = TRUE
        /\ IF ~RunsAfter("stdio")
           THEN /\ pc' = [pc EXCEPT ![c] = "http"]
                /\ httpServer' = "binding"
                /\ UNCHANGED isRunning
           ELSE /\ pc' = [pc EXCEPT ![c] = "idle"]
                /\ isRunning' = TRUE
                /\ UNCHANGED httpServer
        /\ UNCHANGED <<redisClient, routeVars>>
     \/ /\ Cleanup(c)
        /\ UNCHANGED stdio
  /\ UNCHANGED <<config, tools, lastCall>>

\* startHttpTransport(): the listen callback
StartHttpListening(c) ==
  /\ UNCHANGED utilVars
  /\ pc[c] = "http"
  /\ httpServer = "binding"
  /\ httpServer' = "listening"
  /\ isRunning' = TRUE
  /\ pc' = [pc EXCEPT ![c] = "idle"]
  /\ UNCHANGED <<config, redisClient, tools, stdio, lastCall, routeVars>>

\* startHttpTransport(): the server emits 'error' (the port is taken)
StartHttpError(c) ==
  /\ UNCHANGED utilVars
  /\ pc[c] = "http"
  /\ httpServer = "binding"
  /\ Cleanup(c)
  /\ UNCHANGED <<config, tools, stdio, lastCall>>

\* stop(), lines 110-119
StopBody ==
  /\ pc["stop"] = "idle"
  /\ IF ~isRunning
     THEN /\ lastCall' = [op |-> "stop", res |-> "noop"]
          /\ UNCHANGED <<config, isRunning, pc, httpServer, redisClient, tools,
                         stdio, routeVars>>
     ELSE /\ lastCall' = [op |-> "stop", res |-> "begun"]
          /\ Cleanup("stop")
          /\ UNCHANGED <<config, tools, stdio>>

StopCall ==
  /\ UNCHANGED utilVars
  /\ StopBody

\* -------------------------------------------------------------- constructor
\* the numbers a configuration may carry as port: parseInt() of the PORT
\* variable or of --port, which is NaN for text that does not begin with digits
NaN == [nan |-> TRUE, n |-> 0]
Num(n) == [nan |-> FALSE, n |-> n]
Ports == {NaN} \cup {Num(n) : n \in {-1, 0, 1, 80, 3000, 65535, 65536}}
Hosts == {"", "localhost"}
Transports == TransportModes \cup {"sse"}

\* a < b and a > b of JavaScript numbers: false when either side is NaN
Lt(a, b) == ~a.nan /\ ~b.nan /\ a.n < b.n
Gt(a, b) == ~a.nan /\ ~b.nan /\ a.n > b.n

\* validateServerConfig(config): the error it throws, or "ok"
ValidateServerConfig(cfg) ==
  IF Lt(cfg.port, Num(1)) \/ Gt(cfg.port, Num(65535)) THEN "Invalid port"
  ELSE IF cfg.host = "" THEN "Host cannot be empty"
  ELSE IF cfg.transport \notin {"stdio", "http", "both"} THEN "Invalid transport"
  ELSE "ok"

\* new RestApiMcpServer(config)
Construct ==
  /\ ctor.res = "pending"
  /\ ctor' = [ctor EXCEPT !.res = ValidateServerConfig(ctor)]
  /\ UNCHANGED <<storeVars, rlVars, smVars, cacheVars, lifeVars, routeVars,
                 adapter, inflight, proc>>

\* ------------------------------------------------------------------- main()
\* the conditions main() installs a handler for, each calling shutdown()
FatalKinds == {"SIGINT", "SIGTERM", "uncaughtException", "unhandledRejection"}

\* the process once main() has constructed the server and installed the
\* handlers: it runs, it is shutting down, or it has exited with a code
ProcRuns == [phase |-> "run", cause |-> "none", code |-> 0]

\* what the server's steps leave alone, but for the process
notProc == <<storeVars, rlVars, smVars, cacheVars, adapter, inflight, ctor>>

\* process.exit(0) after stop() returned, process.exit(1) from the catch
ExitCodeAlwaysOne(failed) == 1
ExitCode(failed) == IF failed THEN 1 ELSE 0

\* a fatal condition: its handler calls shutdown(), which calls stop() at once
Fatal(kind) ==
  /\ proc.phase = "run"
  /\ proc' = [proc EXCEPT !.phase = "shutdown", !.cause = kind]
  /\ StopBody
  /\ UNCHANGED notProc

\* shutdown() resumes when stop() has returned and exits
ShutdownExits ==
  /\ proc.phase = "shutdown"
  /\ pc["stop"] = "idle"
  /\ proc' = [proc EXCEPT !.phase = "exited",
                          !.code = ExitCode(lastCall.res = "threw")]
  /\ UNCHANGED <<notProc, lifeVars, routeVars>>

\* start() threw, after its cleanup: the catch of main() exits with 1
MainStartFailed ==
  /\ proc.phase = "run"
  /\ lastCall = [op |-> "start", res |-> "begun"]
  /\ pc["start1"] = "idle" /\ ~isRunning
  /\ proc' = [proc EXCEPT !.phase = "exited", !.code = ExitCode(TRUE)]
  /\ UNCHANGED <<notProc, lifeVars, routeVars>>

\* -------------------------------------------------------- createRedisClient
\* The client's socket, as its events tell: "connecting" (an attempt is under
\* way), "connected" (after 'connect'), "ready" (after 'ready'), "waiting"
\* (after 'error', before the next attempt), "ended" (disconnected for good).
\* The client emits the events; the closure of createRedisClient handles them.
AdapterNew ==
  [link |-> "connecting", attempts |-> 0, shuttingDown |-> FALSE,
   timer |-> FALSE, events |-> 0, last |-> "none"]

\* everything but the adapter
notAdapter == <<storeVars, rlVars, smVars, cacheVars, lifeVars, routeVars,
                inflight, proc, ctor>>

\* an event reaches its handler: the socket state it stands for, and the count
Emitted(ev, link) ==
  [adapter EXCEPT !.link = link, !.events = @ + 1, !.last = ev]

\* client.on('connect'): connectionAttempts = 0
OnConnect ==
  /\ adapter.events < MaxEvents
  /\ adapter.link = "connecting"
  /\ adapter' = [Emitted("connect", "connected") EXCEPT !.attempts = 0]
  /\ UNCHANGED notAdapter

\* client.on('ready'): connectionAttempts = 0
OnReady ==
  /\ adapter.events < MaxEvents
  /\ adapter.link = "connected"
  /\ adapter' = [Emitted("ready", "ready") EXCEPT !.attempts = 0]
  /\ UNCHANGED notAdapter

\* client.on('error'): count it; at maxAttempts, once, set isShuttingDown and
\* arm the timer that will disconnect
OnError ==
  /\ adapter.events < MaxEvents
  /\ adapter.link \in {"connecting", "connected", "ready"}
  /\ adapter' =
       [Emitted("error", "waiting") EXCEPT
          !.attempts = @ + 1,
          !.shuttingDown = @ \/ adapter.attempts + 1 >= MaxAttempts,
          !.timer = @ \/ (adapter.attempts + 1 >= MaxAttempts
                           /\ ~adapter.shuttingDown)]
  /\ UNCHANGED notAdapter

\* client.on('reconnecting'): logged below maxAttempts, nothing else; the
\* client begins its next attempt
OnReconnecting ==
  /\ adapter.events < MaxEvents
  /\ adapter.link = "waiting"
  /\ adapter' = Emitted("reconnecting", "connecting")
  /\ UNCHANGED notAdapter

\* the setTimeout of the error handler runs, 100 ms after it was armed:
\* client.disconnect(), whose failure on a client already closed is ignored
DisconnectTimer ==
  /\ adapter.timer
  /\ adapter' = [adapter EXCEPT !.timer = FALSE, !.link = "ended",
                                !.last = IF adapter.link = "ended" THEN @ ELSE "end"]
  /\ UNCHANGED notAdapter

\* the owner of the client disconnects it (initializeRedis after a failed
\* connect) or quits (cleanup)
OwnerDisconnects ==
  /\ adapter.link # "ended"
  /\ adapter' = [adapter EXCEPT !.link = "ended", !.last = "end"]
  /\ UNCHANGED notAdapter

\* ------------------------------------------------- the parts not in use
AdapterIdle == [link |-> "none"]
ProcIdle == [phase |-> "none"]
CtorIdle == [res |-> "none"]

\* ---------------------------------------------------------- specifications
InitServer ==
  /\ isRunning = FALSE
  /\ pc = [c \in Callers |-> "idle"]
  /\ httpServer = "none"
  /\ redisClient = "undefined"
  /\ tools = FALSE
  /\ stdio = FALSE
  /\ transports = [s \in Sids |-> NoHandle]
  /\ handles = [h \in Handles |->
                  [st |-> "none", sid |-> NoSid, init |-> FALSE, dup |-> FALSE]]
  /\ streams = {}
  /\ routed = [s \in Sids |-> {}]
  /\ terminated = {}
  /\ lateReq = {}
  /\ resp = Answer("none", "none", "none")
  /\ nReq = 0
  /\ lastCall = [op |-> "none", res |-> ""]

InitStore ==
  /\ now = 0
  /\ clientOpen \in BOOLEAN
  /\ zset = [i \in RlIds |-> {}]
  /\ zexp = [i \in RlIds |-> NoExpiry]
  /\ rlLog = [i \in RlIds |-> <<>>]
  /\ rlCalls = 0
  /\ sessStore = [s \in SessIds |-> Absent]
  /\ sessExp = [s \in SessIds |-> NoExpiry]
  /\ smRes = [op |-> "none", id |-> "s1", st |-> "ok", ok |-> TRUE,
              val |-> "null", had |-> FALSE]
  /\ smOps = 0
  /\ written = [s \in SessIds |-> NoData]
  /\ lease = [s \in SessIds |-> NoLease]
  /\ cacheStore = [k \in CacheKeys |-> Absent]
  /\ cacheExp = [k \in CacheKeys |-> NoExpiry]
  /\ cacheRes = CacheResult("none", "k1", "null", "ok", TRUE, "null")
  /\ cacheOps = 0

\* nothing but the specification at hand is in use
InitIdle ==
  /\ adapter = AdapterIdle
  /\ inflight = <<>>
  /\ proc = ProcIdle
  /\ ctor = CtorIdle

InitLimiter ==
  /\ InitStore
  /\ InitServer
  /\ InitIdle
  /\ config = "http"
  /\ limitCfg \in [limit : Limits, window : Windows]

NextLimiter ==
  \/ \E id \in RlIds : CheckLimitOk(id, limitCfg.limit, limitCfg.window)
  \/ \E id \in RlIds : CheckLimitClosed(id, limitCfg.limit, limitCfg.window)
  \/ \E id \in RlIds : CheckLimitError(id, limitCfg.limit, limitCfg.window)
  \/ \E id \in RlIds : ResetLimit(id)
  \/ Tick
  \/ LinkFlip

SpecLimiter == InitLimiter /\ [][NextLimiter]_vars

NextSession ==
  \/ \E id \in SessIds, data \in JsValues, ttl \in Ttls : CreateSession(id, data, ttl)
  \/ \E id \in SessIds : GetSession(id)
  \/ \E id \in SessIds, data \in JsValues, ttl \in Ttls : UpdateSession(id, data, ttl)
  \/ \E id \in SessIds : DeleteSession(id)
  \/ \E id \in SessIds, ttl \in Ttls : ExtendSession(id, ttl)
  \/ \E op \in SessionOps, id \in SessIds : SessionOpError(op, id)
  \/ Tick
  \/ LinkFlip

InitSession ==
  /\ InitStore
  /\ InitServer
  /\ InitIdle
  /\ config = "http"
  /\ limitCfg = [limit |-> 1, window |-> 1]

SpecSession == InitSession /\ [][NextSession]_vars

NextCache ==
  \/ \E k \in CacheKeys, v \in JsValues, ttl \in Ttls : CacheSet(k, v, ttl)
  \/ \E k \in CacheKeys : CacheGet(k)
  \/ \E k \in CacheKeys : CacheDel(k)
  \/ \E k \in CacheKeys : CacheExists(k)
  \/ \E op \in CacheOps, k \in CacheKeys : CacheOpError(op, k)
  \/ Tick
  \/ LinkFlip

\* the cache of a store that holds nothing yet
InitCache == InitSession

SpecCache == InitCache /\ [][NextCache]_vars

\* the three utilities of one process against one store: a few calls in all,
\* on one identifier, session and key, with the link going down and coming back
StoreBudget == rlCalls + smOps + cacheOps < MaxStoreCalls

NextStore ==
  \/ StoreBudget /\ CheckLimitOk("a", limitCfg.limit, limitCfg.window)
  \/ StoreBudget /\ CheckLimitClosed("a", limitCfg.limit, limitCfg.window)
  \/ StoreBudget /\ CheckLimitError("a", limitCfg.limit, limitCfg.window)
  \/ StoreBudget /\ ResetLimit("a")
  \/ StoreBudget /\ ResetLimitError("a")
  \/ StoreBudget /\ CreateSession("s1", "obj", 1)
  \/ StoreBudget /\ GetSession("s1")
  \/ StoreBudget /\ UpdateSession("s1", "zero", 1)
  \/ StoreBudget /\ DeleteSession("s1")
  \/ StoreBudget /\ ExtendSession("s1", 2)
  \/ StoreBudget /\ \E op \in SessionOps : SessionOpError(op, "s1")
  \/ StoreBudget /\ CacheSet("k1", "obj", 1)
  \/ StoreBudget /\ CacheGet("k1")
  \/ StoreBudget /\ CacheDel("k1")
  \/ StoreBudget /\ CacheExists("k1")
  \/ StoreBudget /\ \E op \in CacheOps : CacheOpError(op, "k1")
  \/ Tick
  \/ LinkFlip

SpecStore == InitSession /\ [][NextStore]_vars

\* the client createRedisClient returned, once connect() has been called
InitAdapter ==
  /\ InitStore
  /\ InitServer
  /\ config = "http"
  /\ limitCfg = [limit |-> 1, window |-> 1]
  /\ adapter = AdapterNew
  /\ inflight = <<>>
  /\ proc = ProcIdle
  /\ ctor = CtorIdle

NextAdapter ==
  \/ OnConnect
  \/ OnReady
  \/ OnError
  \/ OnReconnecting
  \/ DisconnectTimer
  \/ OwnerDisconnects

SpecAdapter == InitAdapter /\ [][NextAdapter]_vars

\* several callers of checkLimit on one identifier, the store reachable
InitConcurrent ==
  /\ InitStore
  /\ clientOpen
  /\ InitServer
  /\ config = "http"
  /\ limitCfg \in [limit : Limits, window : Windows]
  /\ adapter = AdapterIdle
  /\ inflight = <<>>
  /\ proc = ProcIdle
  /\ ctor = CtorIdle

NextConcurrent ==
  \/ \E c \in Clients : CheckLimitSent(c, "a")
  \/ CheckLimitApplied
  \/ Tick

SpecConcurrent == InitConcurrent /\ [][NextConcurrent]_vars

\* the server constructed with any valid configuration; the store utilities idle
Init ==
  /\ InitStore
  /\ clientOpen
  /\ limitCfg = [limit |-> 1, window |-> 1]
  /\ InitServer
  /\ InitIdle
  /\ config \in TransportModes

Next ==
  \/ \E c \in StartCallers : StartCall(c)
  \/ \E c \in StartCallers : StartRedisDone(c)
  \/ \E c \in StartCallers : StartTools(c)
  \/ \E c \in StartCallers : StartStdioDone(c)
  \/ \E c \in StartCallers : StartHttpListening(c)
  \/ \E c \in StartCallers : StartHttpError(c)
  \/ StopCall
  \/ \E c \in Callers : CleanupHttpClosed(c)
  \/ \E c \in Callers : CleanupRedisDone(c)
  \/ \E sid \in Sids \cup {NoSid} : \E isInit \in BOOLEAN : Post(sid, isInit)
  \/ \E h \in Handles : PostConnected(h)
  \/ \E sid \in Sids \cup {NoSid} : Sse(sid)
  \/ \E h \in Handles : StreamEnds(h)
  \/ \E sid \in Sids \cup {NoSid} : Delete(sid)
  \/ \E h \in Handles : TransportClosed(h)

Spec == Init /\ [][Next]_vars

\* a configuration about to be handed to the constructor
InitConfig ==
  /\ InitStore
  /\ InitServer
  /\ config = "http"
  /\ limitCfg = [limit |-> 1, window |-> 1]
  /\ adapter = AdapterIdle
  /\ inflight = <<>>
  /\ proc = ProcIdle
  /\ ctor \in [port : Ports, host : Hosts, transport : Transports,
                res : {"pending"}]

NextConfig == Construct

SpecConfig == InitConfig /\ [][NextConfig]_vars

\* main(): the server constructed, the handlers installed, start() about to be
\* called; stop() is called by shutdown() only
InitMain ==
  /\ InitStore
  /\ clientOpen
  /\ limitCfg = [limit |-> 1, window |-> 1]
  /\ InitServer
  /\ config \in TransportModes
  /\ adapter = AdapterIdle
  /\ inflight = <<>>
  /\ proc = ProcRuns
  /\ ctor = CtorIdle

Alive == proc.phase # "exited"

NextMain ==
  \/ Alive /\ lastCall.op = "none" /\ StartCall("start1")
  \/ Alive /\ StartRedisDone("start1")
  \/ Alive /\ StartTools("start1")
  \/ Alive /\ StartStdioDone("start1")
  \/ Alive /\ StartHttpListening("start1")
  \/ Alive /\ StartHttpError("start1")
  \/ Alive /\ \E c \in Callers : CleanupHttpClosed(c)
  \/ Alive /\ \E c \in Callers : CleanupRedisDone(c)
  \/ Alive /\ \E sid \in Sids \cup {NoSid} : \E isInit \in BOOLEAN : Post(sid, isInit)
  \/ Alive /\ \E h \in Handles : PostConnected(h)
  \/ Alive /\ \E sid \in Sids \cup {NoSid} : Sse(sid)
  \/ Alive /\ \E h \in Handles : StreamEnds(h)
  \/ Alive /\ \E sid \in Sids \cup {NoSid} : Delete(sid)
  \/ Alive /\ \E h \in Handles : TransportClosed(h)
  \/ \E kind \in FatalKinds : Fatal(kind)
  \/ ShutdownExits
  \/ MainStartFailed

SpecMain == InitMain /\ [][NextMain]_vars

\* the steps the server takes by itself once their await has an answer; the
\* requests, and the ends of streams and transports, are up to the clients
ServerStep ==
  \/ \E c \in StartCallers :
       \/ StartRedisDone(c) \/ StartTools(c) \/ StartStdioDone(c)
       \/ StartHttpListening(c)
  \/ \E c \in Callers : CleanupHttpClosed(c) \/ CleanupRedisDone(c)
  \/ \E h \in Handles : PostConnected(h)

SpecFair == Init /\ [][Next]_vars /\ WF_vars(ServerStep)

\* ------------------------------------------------------------------ claims
\* the first k calls on id: all checkLimit, all answered by the store, and all
\* less than the window after the first of them
FirstCallsInWindow(id, k) ==
  /\ k <= Len(rlLog[id])
  /\ \A j \in 1..k : rlLog[id][j].op = "check" /\ rlLog[id][j].st = "ok"
  /\ rlLog[id][k].t - rlLog[id][1].t < limitCfg.window

\* C1: with the store available and no history for id, the first L checkLimit
\* calls made within W seconds are all allowed and the (L+1)-th call within the
\* same W seconds is refused.
C1_FirstLAllowedNextRefused ==
  \A id \in RlIds : \A k \in 1..(limitCfg.limit + 1) :
    FirstCallsInWindow(id, k) =>
      rlLog[id][k].allowed = (k <= limitCfg.limit)

\* a limit of 2: two calls allowed and a third, a second later, refused
C1_Witness ==
  \E id \in RlIds :
    /\ limitCfg.limit = 2
    /\ FirstCallsInWindow(id, 3)
    /\ rlLog[id][3].t > rlLog[id][1].t
    /\ rlLog[id][1].allowed /\ rlLog[id][2].allowed /\ ~rlLog[id][3].allowed

\* every call on id so far was a checkLimit the store answered
OnlyAnsweredChecks(id) ==
  \A j \in 1..Len(rlLog[id]) : rlLog[id][j].op = "check" /\ rlLog[id][j].st = "ok"

\* the allowed calls on id made in the window-long interval ending with call j
AllowedInTrailingWindow(id, j) ==
  {i \in 1..j : /\ rlLog[id][i].allowed
                /\ rlLog[id][i].t > rlLog[id][j].t - limitCfg.window}

\* C2: with the store available, the allowed checkLimit calls on one identifier
\* whose call time lies in a trailing W-second interval (t - W, t] never number
\* more than L.
C2_AtMostLPerWindow ==
  \A id \in RlIds :
    OnlyAnsweredChecks(id) =>
      \A j \in 1..Len(rlLog[id]) :
        Cardinality(AllowedInTrailingWindow(id, j)) <= limitCfg.limit

\* more than L calls were allowed in all, one of them after an earlier allowed
\* call had left the window, and one call was refused
C2_Witness ==
  \E id \in RlIds :
    /\ OnlyAnsweredChecks(id)
    /\ Cardinality({i \in 1..Len(rlLog[id]) : rlLog[id][i].allowed}) > limitCfg.limit
    /\ \E j \in 1..Len(rlLog[id]) : ~rlLog[id][j].allowed
    /\ \E i, j \in 1..Len(rlLog[id]) :
         /\ rlLog[id][i].allowed /\ rlLog[id][j].allowed
         /\ rlLog[id][j].t - rlLog[id][i].t >= limitCfg.window

\* C3: a checkLimit that finds the client closed, or whose batch raises, answers
\* allowed = true with remaining = L - 1 whatever was called before.
C3_LimiterFailsOpen ==
  \A id \in RlIds : \A j \in 1..Len(rlLog[id]) :
    (rlLog[id][j].op = "check" /\ rlLog[id][j].st \in {"closed", "error"}) =>
      /\ rlLog[id][j].allowed
      /\ rlLog[id][j].remaining = rlLog[id][j].limit - 1

\* a refused call followed, in the same second, by a call whose batch raises
C3_Witness ==
  \E id \in RlIds : \E j \in 1..Len(rlLog[id]) :
    /\ j > 1
    /\ rlLog[id][j].op = "check" /\ rlLog[id][j].st = "error"
    /\ rlLog[id][j].allowed
    /\ rlLog[id][j - 1].st = "ok" /\ ~rlLog[id][j - 1].allowed
    /\ rlLog[id][j - 1].t = rlLog[id][j].t

\* C4: with the store unreachable getSession answers null and createSession,
\* updateSession, deleteSession and extendSession answer false, whatever the
\* store holds.
C4_SessionsFailClosed ==
  (smRes.op \in SessionOps /\ smRes.st \in {"closed", "error"}) =>
    IF smRes.op = "get" THEN smRes.val = "null" ELSE smRes.ok = FALSE

\* getSession on a closed client for a session the store still holds
C4_Witness ==
  /\ smRes.op = "get" /\ smRes.st = "closed"
  /\ smRes.had /\ sessStore[smRes.id] \notin {Absent, "null"}
  /\ smRes.val = "null"


\* the live handles carrying session id s
LiveHandlesOf(s) == {h \in Handles : handles[h].st = "open" /\ handles[h].sid = s}

\* C5: every request presenting a registered identifier goes to the same
\* handle, no handle is constructed for an identifier that is in the registry,
\* and an identifier has at most one live handle.
C5_OneHandlePerId ==
  /\ \A s \in Sids : Cardinality(routed[s]) <= 1
  /\ \A h \in Handles : ~handles[h].dup
  /\ \A s \in Sids : Cardinality(LiveHandlesOf(s)) <= 1
  /\ \A s \in Sids : Known(s) => LiveHandlesOf(s) = {transports[s]}

\* a registered identifier with a stream attached to the handle its requests
\* were routed to, beside a second registered session
C5_Witness ==
  \E s \in Sids :
    /\ Known(s)
    /\ routed[s] = {transports[s]}
    /\ transports[s] \in streams
    /\ \E r \in Sids \ {s} : Known(r)

\* C6: once a DELETE has terminated identifier X, X never has a registry entry
\* again and no later request presenting X is routed to a registered handle.
C6_TerminatedStaysUnknown ==
  [][\A x \in terminated :
       transports'[x] = NoHandle /\ routed'[x] = routed[x]]_vars

\* a request has presented a terminated identifier, and a session initialized
\* afterwards is registered under another identifier
C6_Witness ==
  \E x \in lateReq :
    /\ x \in terminated
    /\ transports[x] = NoHandle
    /\ \E s \in Sids \ {x} : Known(s) /\ s > x

\* the fields of the server other than the record of the last call
ServerState == <<config, isRunning, pc, httpServer, redisClient, tools, stdio,
                 routeVars>>

\* C7: start() on a running server is refused as already running and changes
\* nothing; stop() on a server that is not running returns having done nothing.
C7_StartTwiceStopIdle ==
  [][/\ isRunning => \A c \in StartCallers : pc[c] = "idle" => pc'[c] = "idle"
     /\ (isRunning /\ lastCall' # lastCall /\ lastCall'.op = "start") =>
          (lastCall'.res = "AlreadyRunning" /\ UNCHANGED ServerState)
     /\ ~isRunning => pc'["stop"] = "idle"
     /\ (~isRunning /\ lastCall' # lastCall /\ lastCall'.op = "stop") =>
          (lastCall'.res = "noop" /\ UNCHANGED ServerState)]_vars

\* start() was just refused on a server that runs and listens
C7_Witness ==
  /\ isRunning
  /\ httpServer = "listening"
  /\ lastCall = [op |-> "start", res |-> "AlreadyRunning"]

\* the step in which a stop() in progress returns
StopReturns == isRunning /\ ~isRunning'

\* C8: when stop() returns, every handle that was registered is closed and the
\* registry is empty.
C8_StopClosesEveryHandle ==
  [][StopReturns =>
       /\ \A s \in Sids : transports'[s] = NoHandle
       /\ \A h \in Registered : handles'[h].st = "closed"]_vars

\* C9: a stop() that found the store connection open has closed it when it
\* returns, and closes it only once no handle is registered any more and the
\* listener no longer accepts.
C9_StoreClosedLast ==
  [][/\ (StopReturns /\ redisClient = "open") => redisClient' = "closed"
     /\ (pc["stop"] # "idle" /\ redisClient # "closed" /\ redisClient' = "closed") =>
          (Registered = {} /\ httpServer \notin {"binding", "listening"})]_vars

\* C10: a stop() in progress returns, whatever the clients do with their
\* streaming connections.
C10_StopCompletes == (pc["stop"] # "idle") ~> (pc["stop"] = "idle")

\* the identifiers a request may carry
Carried == Sids \cup {NoSid}

\* a step in which the given route received a request
RequestStep(route) == nReq' # nReq /\ resp'.route = route

\* C11: a GET that carries no identifier, or one that is not in the registry,
\* is answered 400, constructs no handle and leaves the registry as it was.
C11_StreamNeedsSession ==
  [][\A sid \in Carried :
       (RequestStep("get") /\ Sse(sid) /\ ~Known(sid)) =>
         /\ resp'.route = "get" /\ resp'.status = "400"
         /\ UNCHANGED <<transports, handles, streams>>]_vars

\* a GET presenting an identifier that is no longer registered was answered 400
\* while another session is registered
C11_Witness ==
  /\ resp = Answer("get", "stale", "400")
  /\ Registered # {}

\* C12: a DELETE for a registered identifier removes it from the registry and
\* is answered 200, with its handle closed or, when closing failed, left as it
\* was; a DELETE for an identifier already terminated changes nothing and is
\* answered 200 too.
C12_TerminationRemoves ==
  [][\A sid \in Carried :
       /\ (RequestStep("delete") /\ Delete(sid) /\ Known(sid)) =>
            /\ transports'[sid] = NoHandle
            /\ resp' = Answer("delete", "known", "200")
            /\ handles'[transports[sid]] \in
                 {ClosedHandle(transports[sid]), handles[transports[sid]]}
       /\ (RequestStep("delete") /\ sid \in terminated /\ Delete(sid)) =>
            /\ resp'.status = "200"
            /\ UNCHANGED <<transports, handles, streams, terminated>>]_vars

\* the only identifier issued was terminated, and a second DELETE presenting it
\* was answered 200
C12_Witness ==
  \E x \in lateReq :
    /\ UsedSids = {x}
    /\ handles[1].sid = x /\ handles[1].st = "closed"
    /\ resp = Answer("delete", "stale", "200")

\* C13: a DELETE presenting an identifier that is not in the registry is
\* answered with a client error.
C13_UnknownTerminationRejected ==
  (resp.route = "delete" /\ resp.kind = "stale") => resp.status \in {"400", "404"}

\* C14: a failure while routing a request is answered with the JSON-RPC error
\* or, once the response has begun, only logged: no handler lets it escape.
C14_RoutingFailuresAnswered == resp.status # "escaped"

\* C15: every registry entry holds a handle that initialized with exactly that
\* identifier; a handle that did not initialize is not in the registry.
C15_RegistryOnlyInitialized ==
  /\ \A s \in Sids :
       transports[s] # NoHandle =>
         /\ handles[transports[s]].init
         /\ handles[transports[s]].sid = s
         /\ handles[transports[s]].st \notin {"none", "connecting"}
  /\ \A h \in Handles :
       (~handles[h].init \/ handles[h].sid = NoSid) => h \notin Registered

\* one handle initialized and is registered; another was constructed and
\* connected for a request that was not an initialize request
C15_Witness ==
  /\ \E h \in Registered : handles[h].init
  /\ \E g \in Handles \ Registered : handles[g].st = "open" /\ ~handles[g].init

\* C16: the closure callback and a DELETE of the same session, in either order:
\* each leaves the identifier out of the registry, the later of the two changes
\* the registry no more, and the DELETE is answered 200.
C16_ClosureAndTerminationCommute ==
  [][/\ \A h \in Handles :
          (nReq' = nReq /\ handles'[h] # handles[h] /\ TransportClosed(h)) =>
            /\ handles[h].sid # NoSid => transports'[handles[h].sid] = NoHandle
            /\ handles[h].sid \in terminated => transports' = transports
     /\ \A sid \in Carried :
          (RequestStep("delete") /\ Delete(sid)) =>
            /\ sid # NoSid => transports'[sid] = NoHandle
            /\ ~Known(sid) => transports' = transports
            /\ resp'.status = "200"
     /\ \A x \in terminated' : transports'[x] = NoHandle]_vars

\* the transport of the only session closed by itself, and a DELETE presenting
\* its identifier afterwards was answered 200
C16_Witness ==
  \E h \in Handles :
    /\ handles[h].st = "closed"
    /\ UsedSids = {handles[h].sid}
    /\ handles[h].sid \notin terminated
    /\ resp = Answer("delete", "stale", "200")

\* call r on id was a resetLimit that succeeded, and the k calls after it were
\* all checkLimit, all answered by the store, and all less than the window
\* after the first of them
FirstCallsAfterReset(id, r, k) ==
  /\ r + k <= Len(rlLog[id])
  /\ rlLog[id][r].op = "reset" /\ rlLog[id][r].st = "ok"
  /\ \A j \in (r + 1)..(r + k) : rlLog[id][j].op = "check" /\ rlLog[id][j].st = "ok"
  /\ rlLog[id][r + k].t - rlLog[id][r + 1].t < limitCfg.window

\* C17: after a resetLimit(id) that succeeded, whatever was called before it,
\* the checks that follow are answered as for an identifier without history:
\* the first L within W seconds are allowed, the first with remaining L - 1,
\* and the next is refused.
C17_ResetForgetsHistory ==
  \A id \in RlIds : \A r \in 1..Len(rlLog[id]) :
    \A k \in 1..(limitCfg.limit + 1) :
      FirstCallsAfterReset(id, r, k) =>
        /\ rlLog[id][r + k].allowed = (k <= limitCfg.limit)
        /\ rlLog[id][r + 1].remaining = limitCfg.limit - 1

\* a limit of 1 was used up, the identifier was reset, and the check made in
\* the same second was allowed again
C17_Witness ==
  \E id \in RlIds :
    /\ limitCfg.limit = 1
    /\ FirstCallsAfterReset(id, 2, 1)
    /\ rlLog[id][1].op = "check" /\ rlLog[id][1].st = "ok" /\ rlLog[id][1].allowed
    /\ rlLog[id][3].t = rlLog[id][1].t
    /\ rlLog[id][3].allowed

\* the calls on id before call j that the window of call j still holds
PriorInWindow(id, j) ==
  {i \in 1..(j - 1) : rlLog[id][i].t > rlLog[id][j].t - limitCfg.window}

\* C18: with the store available, a checkLimit at time now that finds count
\* entries in its window answers remaining = max(0, L - count - 1) and
\* resetTime = now + W, and is allowed exactly when count < L.
C18_RemainingAndResetTime ==
  \A id \in RlIds :
    OnlyAnsweredChecks(id) =>
      \A j \in 1..Len(rlLog[id]) :
        LET count == Cardinality(PriorInWindow(id, j))
        IN  /\ rlLog[id][j].remaining =
                 IF limitCfg.limit - count - 1 > 0
                 THEN limitCfg.limit - count - 1 ELSE 0
            /\ rlLog[id][j].resetTime =
                 (rlLog[id][j].t + limitCfg.window) * MsPerSec
            /\ rlLog[id][j].allowed = (count < limitCfg.limit)

\* a limit of 2: three checks answered remaining 1, 0 and 0, the third refused
C18_Witness ==
  \E id \in RlIds :
    /\ limitCfg.limit = 2
    /\ OnlyAnsweredChecks(id)
    /\ Len(rlLog[id]) = 3
    /\ rlLog[id][3].t - rlLog[id][1].t < limitCfg.window
    /\ rlLog[id][1].remaining = 1 /\ rlLog[id][1].allowed
    /\ rlLog[id][2].remaining = 0 /\ rlLog[id][2].allowed
    /\ rlLog[id][3].remaining = 0 /\ ~rlLog[id][3].allowed

\* C19: with the store available, get(k) right after a set(k, v, ttl) that
\* succeeded returns v, for every value v including null, false, 0 and "";
\* get(k) after a del(k) that succeeded returns null.
C19_CacheRoundTrip ==
  [][\A k \in CacheKeys :
       (CacheGet(k) /\ clientOpen) =>
         /\ (cacheRes.op = "set" /\ cacheRes.key = k /\ cacheRes.ok
               /\ cacheRes.t = now) => cacheRes'.val = cacheRes.arg
         /\ (cacheRes.op = "del" /\ cacheRes.key = k /\ cacheRes.ok) =>
              cacheRes'.val = "null"]_vars

\* set(k, 0) and then get(k) in the same second: the get returned 0
C19_Witness ==
  /\ cacheOps = 2 /\ now = 0
  /\ cacheRes.op = "get" /\ cacheRes.st = "ok"
  /\ cacheStore[cacheRes.key] = "0"
  /\ cacheRes.val = "zero"

\* C20: with the store available, getSession(id) returns the data of the write
\* in force for id (the latest createSession or updateSession that succeeded,
\* not deleted since and not expired), and null when there is none.
C20_GetSessionReturnsLatestWrite ==
  [][\A id \in SessIds :
       (GetSession(id) /\ clientOpen) =>
         smRes'.val = IF written[id] = NoData THEN "null" ELSE written[id]]_vars

\* three calls, all on one session: the last, a getSession, returned the ""
\* of the write in force
C20_Witness ==
  /\ smOps = 3
  /\ smRes.op = "get" /\ smRes.st = "ok"
  /\ written[smRes.id] = "emptystr"
  /\ smRes.val = "emptystr"
  /\ \A s \in SessIds \ {smRes.id} : sessStore[s] = Absent

\* C21: a session whose TTL is extended before it runs out is answered by
\* getSession until the TTL of the extension, counted from the extension, runs
\* out, also once the TTL it was written with has run out, and not after.
C21_ExtensionReplacesExpiry ==
  [][\A id \in SessIds :
       (smOps' # smOps /\ smRes'.op = "get" /\ clientOpen /\ GetSession(id)) =>
         IF lease[id].until > now
         THEN written[id] # NoData /\ smRes'.val = written[id]
         ELSE smRes'.val = "null"]_vars

\* getSession returns the data of a session after the TTL it was created with
\* has run out and before the TTL of its extension has
C21_Witness ==
  /\ smRes.op = "get" /\ smRes.st = "ok" /\ smRes.val = "obj"
  /\ lease[smRes.id].orig <= now
  /\ lease[smRes.id].until > now

\* C22: no call of the cache, the limiter or the session manager ends in an
\* exception: a call that finds the client closed, or whose store command
\* raises, returns its fallback: null from a get, false from every other
\* cache and session call and from resetLimit, allowed from checkLimit.
C22_StoreFailuresAbsorbed ==
  /\ \A id \in RlIds : \A j \in 1..Len(rlLog[id]) :
       /\ rlLog[id][j].st \in {"ok", "closed", "error"}
       /\ rlLog[id][j].st # "ok" =>
            rlLog[id][j].allowed = (rlLog[id][j].op = "check")
  /\ smRes.st \in {"ok", "closed", "error"}
  /\ smRes.st # "ok" =>
       IF smRes.op = "get" THEN smRes.val = "null" ELSE smRes.ok = FALSE
  /\ cacheRes.st \in {"ok", "closed", "error"}
  /\ cacheRes.st # "ok" =>
       IF cacheRes.op = "get" THEN cacheRes.val = "null" ELSE cacheRes.ok = FALSE

\* a cache get whose command raised answered null, after a checkLimit of the
\* same run had found the client closed and answered allowed
C22_Witness ==
  /\ cacheRes.op = "get" /\ cacheRes.st = "error" /\ cacheRes.val = "null"
  /\ \E id \in RlIds : \E j \in 1..Len(rlLog[id]) :
       rlLog[id][j].st = "closed" /\ rlLog[id][j].allowed

\* C23: once the error count of the store adapter has reached the threshold
\* the adapter is degraded for good: the flag is never cleared, and the client
\* makes no further reconnection attempt and no further transition to
\* connected or ready.
C23_DegradedIsTerminal ==
  [][adapter.shuttingDown =>
       /\ adapter'.shuttingDown
       /\ adapter'.link # adapter.link => adapter'.link \in {"waiting", "ended"}]_vars

\* C24: start() goes on to register the tools and activate the transports
\* whether the store connect succeeded, failed or timed out; after a failure
\* the store handle is discarded and the server reports the store as not
\* connected until start() is called again.
C24_StartSurvivesStoreFailure ==
  [][/\ \A c \in StartCallers :
          (pc[c] = "redis" /\ pc'[c] # "redis") =>
            /\ pc'[c] = "tools"
            /\ redisClient' \in {"open", "null"}
            /\ isRunning' = isRunning /\ lastCall' = lastCall
     /\ redisClient = "null" =>
          /\ ~RedisConnected
          /\ redisClient' # "null" => (~isRunning /\ lastCall'.res = "begun"
                                         /\ redisClient' = "connecting")]_vars

\* the server runs with its tools registered and both transports active after
\* a store connect that failed, and reports the store as not connected
C24_Witness ==
  /\ isRunning
  /\ redisClient = "null" /\ ~RedisConnected
  /\ tools /\ stdio /\ httpServer = "listening"
  /\ config = "both"

\* the allowed calls on id that were made and applied within the window-long
\* intervals ending with the call and the application of call j
AdmittedWithCall(id, j) ==
  {i \in 1..Len(rlLog[id]) :
     /\ rlLog[id][i].allowed
     /\ rlLog[id][i].t > rlLog[id][j].t - limitCfg.window
     /\ rlLog[id][i].t <= rlLog[id][j].t
     /\ rlLog[id][i].at > rlLog[id][j].at - limitCfg.window
     /\ rlLog[id][i].at <= rlLog[id][j].at}

C26_FatalConditionsStopFirst ==
  (proc.phase = "exited" /\ proc.cause \in FatalKinds) =>
    /\ lastCall.op = "stop"
    /\ proc.code # 0 => lastCall.res = "threw"

\* an unhandled rejection on a listening server: stop() closed the listener
\* and the process exited with code 0
C26_Witness ==
  /\ proc = [phase |-> "exited", cause |-> "unhandledRejection", code |-> 0]
  /\ lastCall = [op |-> "stop", res |-> "begun"]
  /\ ~isRunning /\ httpServer = "closed"

\* C27: constructing the server fails exactly when the port is not a number
\* from 1 to 65535, the host is empty, or the transport is none of stdio,
\* http and both; otherwise it yields a server that is not running.
C27_ConstructorRejectsInvalid ==
  ctor.res \notin {"none", "pending"} =>
    /\ (ctor.res # "ok") =
         (\/ ~(~ctor.port.nan /\ ctor.port.n >= 1 /\ ctor.port.n <= 65535)
          \/ ctor.host = ""
          \/ ctor.transport \notin {"stdio", "http", "both"})
    /\ ctor.res = "ok" => ~isRunning

\* C28: every POST that carries no session identifier constructs one handle
\* that no earlier request constructed, and the identifier a handle registers
\* when it is initialized is one that no handle was given before, terminated
\* sessions included.
C28_FreshHandleFreshId ==
  [][/\ (nReq' # nReq /\ \E isInit \in BOOLEAN : Post(NoSid, isInit)) =>
          \E h \in Handles :
            /\ handles[h].st = "none" /\ handles'[h].st # "none"
            /\ \A g \in Handles \ {h} : handles'[g] = handles[g]
     /\ \A h \in Handles :
          (handles[h].sid = NoSid /\ handles'[h].sid # NoSid) =>
            /\ \A g \in Handles \ {h} : handles[g].sid # handles'[h].sid
            /\ handles'[h].sid \notin terminated
            /\ transports[handles'[h].sid] = NoHandle
            /\ transports'[handles'[h].sid] = h]_vars

\* a handle constructed after the session of an earlier one was terminated
\* is registered under another identifier
C28_Witness ==
  \E h, g \in Handles :
    /\ h < g
    /\ handles[h].sid \in terminated
    /\ handles[g].sid \notin {NoSid, handles[h].sid}
    /\ transports[handles[g].sid] = g

\* C29: within start() the store connect has finished, well or badly, when
\* the registration of the tools begins; the tools are registered when the
\* first transport is begun; and isRunning becomes true only with every
\* configured transport active.
C29_StartOrder ==
  [][/\ \A c \in StartCallers :
          /\ (pc[c] # "tools" /\ pc'[c] = "tools") =>
               (pc[c] = "redis" /\ redisClient' \in {"open", "null"})
          /\ (pc[c] \notin {"stdio", "http"} /\ pc'[c] \in {"stdio", "http"}) =>
               (pc[c] = "tools" /\ tools')
     /\ (stdio' /\ ~stdio) => tools
     /\ (httpServer' = "binding" /\ httpServer # "binding") => tools'
     /\ (isRunning' /\ ~isRunning) =>
          /\ config \in {"stdio", "both"} => stdio'
          /\ config \in {"http", "both"} => httpServer' = "listening"
          /\ tools /\ redisClient \in {"open", "null"}]_vars

\* start() has returned on a server configured with both transports: the
\* store is connected, the tools registered, both transports active
C29_Witness ==
  /\ isRunning /\ pc["start1"] = "idle"
  /\ config = "both" /\ stdio /\ httpServer = "listening"
  /\ tools /\ redisClient = "open"

\* the step in which the cleanup() that caller c waits for completes
CleanupReturns(c) == pc[c] \in {"cleanupHttp", "cleanupRedis"} /\ pc'[c] = "idle"

\* C30: when the cleanup of a shutdown completes the registry is empty and
\* every handle that was registered has been closed, but for those whose own
\* close failed: one failing close keeps no other handle open and no entry in
\* the registry.
C30_CleanupClosesTheRest ==
  [][(CleanupReturns("stop") /\ StopReturns) =>
       /\ \A s \in Sids : transports'[s] = NoHandle
       /\ \E failed \in SUBSET Registered :
            /\ Cardinality(failed) <= 1
            /\ \A h \in Registered \ failed : handles'[h].st = "closed"]_vars

\* C31: the error counter of the store adapter never decreases, whatever
\* connect, ready, error, reconnecting and end events the client emits.
C31_ErrorCountMonotonic ==
  [][adapter'.attempts >= adapter.attempts]_vars

\* C32: a checkLimit at time now with window W removes exactly the entries
\* older than now - W before it counts: a call made exactly W before is still
\* counted, so a call is allowed exactly when fewer than L earlier calls lie
\* in [now - W, now].
C32_ClosedWindowCounted ==
  \A id \in RlIds :
    OnlyAnsweredChecks(id) =>
      \A j \in 1..Len(rlLog[id]) :
        rlLog[id][j].allowed =
          (Cardinality({i \in 1..(j - 1) :
                          rlLog[id][i].t >= rlLog[id][j].t - limitCfg.window})
             < limitCfg.limit)

\* A store that is reachable but slow: time passes, and nothing in checkLimit
\* bounds the wait of `await multi.exec()` (lines 194-208: no timer, no race),
\* so only the clock is fair and the store's answer is not.
SpecSlow == InitConcurrent /\ [][NextConcurrent]_vars /\ WF_vars(Tick)

\* C33: a checkLimit call sent over an open connection eventually returns
\* its result, even when the store is slow or never answers: no call stays
\* in flight forever.
C33_EveryCallReturns ==
  \A c \in Clients :
    (\E k \in 1..Len(inflight) : inflight[k].c = c)
      ~> (\A k \in 1..Len(inflight) : inflight[k].c # c)

\* the registry entries of every identifier but sid are what they were
OthersKept(sid) == \A s \in Sids \ {sid} : transports'[s] = transports[s]

\* the mutations for other identifiers that the state admits while handle g
\* is between its construction and its registration
OthersProceed(g) ==
  /\ \A sid \in Sids :
       (httpServer = "listening" /\ nReq < MaxRequests /\ Known(sid)
          /\ transports[sid] # g)
         => ENABLED Delete(sid)
  /\ \A h \in Handles \ {g} : handles[h].st = "open" => ENABLED TransportClosed(h)

\* C34: a registration on initialized, an explicit termination and a closure
\* callback change the registry entry of their own identifier only, and
\* while an operation for one identifier is in progress (its handle is being
\* connected) the terminations and closures of the others can take place.
C34_RegistryFrame ==
  [][/\ \A h \in Handles :
          (handles[h].st = "connecting" /\ handles'[h].st = "open")
            => OthersKept(handles'[h].sid) /\ OthersProceed(h)
     /\ (nReq' # nReq /\ resp'.route = "delete")
          => \A s \in Sids :
               transports'[s] # transports[s] => terminated' \ terminated = {s}
     /\ \A h \in Handles :
          (handles[h].st = "open" /\ handles'[h].st = "closed")
            => OthersKept(handles[h].sid)]_vars

\* two identifiers were registered and one of them was terminated: the other
\* one is still registered
C34_Witness ==
  /\ resp.route = "delete"
  /\ resp.kind = "known"
  /\ \E s \in terminated : ~Known(s)
  /\ \E s \in Sids \ terminated : Known(s)

\* the step in which a checkLimit on id is answered by the store, all calls
\* on id so far having been answered checks
AnsweredCheck(id) ==
  /\ rlCalls' # rlCalls
  /\ Len(rlLog'[id]) = Len(rlLog[id]) + 1
  /\ OnlyAnsweredChecks(id)
  /\ rlLog'[id][Len(rlLog'[id])].op = "check"
  /\ rlLog'[id][Len(rlLog'[id])].st = "ok"

\* the calls on id so far, allowed or refused, of the window ending now
ChecksInWindow(id) ==
  {i \in 1..Len(rlLog[id]) : rlLog[id][i].t > now - limitCfg.window}

\* C35: with the store available every checkLimit adds an entry to the log of
\* its identifier, allowed or refused; so a call that finds L or more calls
\* of its identifier in the trailing window, refused ones included, is
\* refused, however long ago the last allowed call was.
C35_RefusedCallsCount ==
  [][\A id \in RlIds :
       AnsweredCheck(id) =>
         /\ ZCard(zset'[id]) =
              ZCard(BatchPruned(zset[id], NowMs, limitCfg.window)) + 1
         /\ Cardinality(ChecksInWindow(id)) >= limitCfg.limit =>
              ~rlLog'[id][Len(rlLog'[id])].allowed]_vars

\* a limit of 1 and a window of 2: a call allowed, a call refused a second
\* later, and a third call refused when the allowed one has left the window
C35_Witness ==
  \E id \in RlIds :
    /\ limitCfg = [limit |-> 1, window |-> 2]
    /\ OnlyAnsweredChecks(id)
    /\ Len(rlLog[id]) = 3
    /\ rlLog[id][1].allowed /\ rlLog[id][1].t = 0
    /\ ~rlLog[id][2].allowed /\ rlLog[id][2].t = 1
    /\ ~rlLog[id][3].allowed /\ rlLog[id][3].t = 2

\* The lifecycle with a second start() issued at any moment, also before the
\* first has returned. The fields are those of the one server object: with
\* two startups in progress each step assigns this.redisClient and
\* this.httpServer as its own startup would, over what the other one left.
NextOverlap ==
  \/ \E c \in OverlapCallers : StartCall(c)
  \/ \E c \in OverlapCallers : StartRedisDone(c)
  \/ \E c \in OverlapCallers : StartTools(c)
  \/ \E c \in OverlapCallers : StartStdioDone(c)
  \/ \E c \in OverlapCallers : StartHttpListening(c)
  \/ \E c \in OverlapCallers : StartHttpError(c)
  \/ StopCall
  \/ \E c \in Callers : CleanupHttpClosed(c)
  \/ \E c \in Callers : CleanupRedisDone(c)

SpecOverlap == Init /\ [][NextOverlap]_vars

\* C36: a start() issued while an earlier start() has not returned is refused
\* as already running: it begins no store connect, no registration of tools
\* and no transport of its own.
C36_OneStartupAtATime ==
  [][\A c \in OverlapCallers :
       (/\ pc[c] = "idle"
        /\ \E d \in OverlapCallers \ {c} : pc[d] # "idle"
        /\ StartCall(c)) =>
         /\ lastCall'.res = "AlreadyRunning"
         /\ pc'[c] = "idle"
         /\ redisClient' = redisClient]_vars

\* C37: every handle the router constructs is eventually registered or
\* closed: none stays open and out of the registry forever.
C37_HandlesRegisteredOrClosed ==
  \A h \in Handles :
    (handles[h].st \in {"connecting", "open"})
      ~> (handles[h].st = "closed" \/ h \in Registered)

\* what the server holds open: the listener, the store connection, a handle
HoldsOpen ==
  \/ httpServer \in {"binding", "listening"}
  \/ redisClient \in {"connecting", "open"}
  \/ \E h \in Handles : handles[h].st \in {"connecting", "open"}

\* C38: stop() called at any moment after start() was called, also while
\* start() is still in progress: once both calls have returned the server is
\* not running and holds no open listener, store connection or handle.
C38_StopAfterStartStops ==
  (/\ lastCall.op = "stop"
   /\ redisClient # "undefined"
   /\ \A c \in Callers : pc[c] = "idle") =>
    (~isRunning /\ ~HoldsOpen)

\* C39: with no start() or stop() in progress, the server reports the store
\* as connected (getStatus().redisConnected, /health, /metrics) exactly when
\* the store connection is open; it reports it as disconnected once stop()
\* has closed the connection.
C39_ReportsOpenConnection ==
  (\A c \in Callers : pc[c] = "idle") =>
    (RedisConnected <=> redisClient = "open")

\* C40: extendSession(id, ttl) answers true only for a session the store
\* holds: for an identifier never created, deleted or expired it answers
\* false and creates no session.
C40_ExtendNeedsSession ==
  (smRes.op = "extend" /\ ~smRes.had) =>
    (~smRes.ok /\ sessStore[smRes.id] = Absent)
====
